---------------------------- MODULE Spec2Model ----------------------------
(***************************************************************************)
(* Zendroid web client: the duplex (WebSocket) application                 *)
(*   src/unnamed/part_000                       App (runId, currentData)   *)
(*   src/web/src/components/ResultsViewer.tsx   ResultsViewer, TestRunner  *)
(*   src/web/src/components/ChatInterface.tsx   ChatInterface              *)
(* and the legacy polling application                                      *)
(*   src/web/src/App.tsx                        App (runData)              *)
(*   src/web/src/components/ResultsViewer.tsx   TestRunner (polling)       *)
(*                                                                         *)
(* React state is one variable per useState cell.  A handler runs to       *)
(* completion in one step.  A passive effect (useEffect) is a step of its  *)
(* own that React runs some time after the update that scheduled it;       *)
(* network callbacks may run in between, user input may not (React flushes *)
(* pending effects before it dispatches a discrete event).                 *)
(* JavaScript's falsy values null, undefined, "" and 0 are written "" for  *)
(* strings and 0 for numbers: the code only ever tests them for truth.     *)
(***************************************************************************)
EXTENDS Naturals, Sequences, FiniteSets, TLC

\* ------------------------------------------------------------- bounds
\* Runs the server creates (run identifiers 1..MaxRuns; 0 is null).
MaxRuns == 2
\* Inbound frames that parse, over all sessions.
MaxEvents == 3
\* Calls of sendMessage that pass its guard.
MaxSends == 1
\* Inbound frames that parse when the user goes through several runs.
MaxCarry == 1
\* Ticks of the polling interval.
MaxTicks == 3
\* Inbound frames that do not parse.
MaxUnparsed == 1

\* ------------------------------------------------------------- values
NoRun == 0
RunIds == 1..MaxRuns
NoSocket == 0

ApkPath == "/tmp/a.apk"
Prompts == {"", "open app"}
Inputs == {"", " ", "retry"}

Narrated == {"status", "plan", "task_start", "action_plan", "action_executed", "task_complete"}
ErrorLike == {"error", "error_awaiting_input"}

\* An inbound envelope; a field the envelope does not carry is "" or 0.
Event(t, m, d, s, k, n, tot) ==
    [type |-> t, message |-> m, data |-> d, status |-> s, task |-> k,
     task_number |-> n, total_tasks |-> tot]

EvTaskStart  == Event("task_start", "Task 1/3", "", "running", "open", 1, 3)
EvStatus     == Event("status", "", "", "", "", 0, 0)
EvShot       == Event("screenshot", "", "Xg==", "", "", 0, 0)
EvShotStatus == Event("screenshot", "", "Yg==", "failed", "", 0, 0)
EvError      == Event("error", "", "", "", "", 0, 0)
EvAwaiting   == Event("error_awaiting_input", "crash?", "", "", "", 0, 0)
EvComplete   == Event("complete", "", "", "passed", "", 0, 0)
EvUnknown    == Event("heartbeat", "", "", "", "", 0, 0)

\* Envelopes of other types than screenshot that carry data.
EvExecuted   == Event("action_executed", "tap", "Zg==", "", "", 0, 0)
EvPlan       == Event("action_plan", "plan", "Pg==", "", "", 0, 0)

Events == {EvTaskStart, EvStatus, EvShot, EvShotStatus, EvError, EvAwaiting,
           EvComplete, EvUnknown}

\* A frame on the wire: the text of an envelope, or text that is not JSON.
Garbage == [json |-> FALSE]
Frames == {[json |-> TRUE, value |-> e] : e \in Events} \cup {Garbage}

NoData == Event("", "", "", "", "", 0, 0)

\* GET /test/{run_id}: a full snapshot of the run.
Snapshot(st) == [status |-> st]
NoSnapshot == Snapshot("")

\* ------------------------------------------------------------- state
VARIABLES
    \* App (duplex)
    apkPath, runId, currentData,
    \* TestRunner (duplex)
    testPrompt, loading, started,
    \* ChatInterface
    messages, inputValue, ws, isConnected, isWaitingForInput,
    \* ResultsViewer
    screenshot, status, currentTask, taskProgress,
    \* React: the run the websocket effect last ran for, whether the
    \* ResultsViewer effect is due
    effectRunId, dataPending,
    \* the environment: the frames the agent sends, the texts the user
    \* types, the runs the server creates, the events it sends in all
    env,
    \* the browser's WebSocket objects (one per run) and what was transmitted
    sock, closeDue, sent,
    \* history: inbound frames by class, the entries the parsed ones appended,
    \* and how the last call of the user or the last status request ended
    \* ("-" once another handler has run)
    evCount, evAppended, lastCall,
    \* the polling application: App's runData, whether TestRunner's interval
    \* is set, the status requests in flight, the ticks fired so far, the
    \* status the server would report
    runData, interval, pending, ticks, server

appVars == <<apkPath, runId, currentData>>
runnerVars == <<testPrompt, loading, started>>
chatVars == <<messages, inputValue, ws, isConnected, isWaitingForInput>>
viewerVars == <<screenshot, status, currentTask, taskProgress>>
reactVars == <<effectRunId, dataPending>>
netVars == <<sock, closeDue, sent>>
histVars == <<evCount, evAppended>>
pollVars == <<runData, interval, pending, ticks, server>>
vars == <<appVars, runnerVars, chatVars, viewerVars, reactVars, netVars,
          histVars, lastCall, env, pollVars>>

\* ------------------------------------------------------------- helpers
\* String.prototype.trim on the inputs of the model.
Trim(s) == IF s \in {"", " "} THEN "" ELSE s

\* JSON.stringify(data) of an envelope without message.
JSONStringify(data) == "{\"type\":\"" \o data.type \o "\"}"

\* JSON.parse of a frame: the envelope, or a SyntaxError.
JSONParse(frame) == IF frame.json THEN [ok |-> TRUE, value |-> frame.value]
                    ELSE [ok |-> FALSE, value |-> NoData]

Or(a, b) == IF a # "" THEN a ELSE b

ChatEntry(type, message) == [type |-> type, message |-> message]

\* addMessage putting the entry in front.
addMessagePrepends(msgs, type, message) == <<ChatEntry(type, message)>> \o msgs

addMessage(msgs, type, message) == Append(msgs, ChatEntry(type, message))

\* The user entries of a transcript.
NumUser(msgs) == Cardinality({i \in DOMAIN msgs : msgs[i].type = "user"})

ConnectedNote == ChatEntry("system", "Connected to agent")
ErrorNote == ChatEntry("system", "Connection error")
DisconnectedNote == ChatEntry("system", "Disconnected from agent")

CompletionText(data) ==
    "Test completed with status: " \o Or(data.status, "undefined")

\* TranscriptEffect with the screenshot case narrating like the cases above it.
TranscriptEffectNarratesScreenshot(data, msgs) ==
    CASE data.type \in Narrated \cup {"screenshot"} ->
            addMessage(msgs, "agent", Or(data.message, JSONStringify(data)))
      [] data.type = "error" ->
            addMessage(msgs, "error", Or(data.message, "Unknown error occurred"))
      [] data.type = "error_awaiting_input" ->
            addMessage(msgs, "error",
                       Or(data.message, "Error occurred. What should I do?"))
      [] data.type = "complete" ->
            addMessage(msgs, "system", Or(data.message, CompletionText(data)))
      [] OTHER -> msgs

\* The switch of handleWebSocketMessage: the transcript after the event.
TranscriptEffect(data, msgs) ==
    CASE data.type \in Narrated ->
            addMessage(msgs, "agent", Or(data.message, JSONStringify(data)))
      [] data.type = "screenshot" -> msgs
      [] data.type = "error" ->
            addMessage(msgs, "error", Or(data.message, "Unknown error occurred"))
      [] data.type = "error_awaiting_input" ->
            addMessage(msgs, "error",
                       Or(data.message, "Error occurred. What should I do?"))
      [] data.type = "complete" ->
            addMessage(msgs, "system", Or(data.message, CompletionText(data)))
      [] OTHER -> msgs

\* GateEffect with error_awaiting_input flipping the flag.
GateEffectToggles(data, gate) ==
    CASE data.type = "error_awaiting_input" -> ~gate
      [] data.type = "complete" -> FALSE
      [] OTHER -> gate

\* GateEffect with error falling through to error_awaiting_input.
GateEffectErrorBlocks(data, gate) ==
    CASE data.type \in {"error", "error_awaiting_input"} -> TRUE
      [] data.type = "complete" -> FALSE
      [] OTHER -> gate

\* The switch of handleWebSocketMessage: isWaitingForInput after the event.
GateEffect(data, gate) ==
    CASE data.type = "error_awaiting_input" -> TRUE
      [] data.type = "complete" -> FALSE
      [] OTHER -> gate

\* ScreenshotEffect with the fallback taking the data of action_plan too.
ScreenshotEffectPlanToo(data, shot) ==
    IF data.type = "screenshot" /\ data.data # "" THEN data.data
    ELSE IF data.data # "" THEN data.data
    ELSE shot

\* ScreenshotEffect keeping the first screenshot of the run.
ScreenshotEffectKeepsFirst(data, shot) ==
    IF shot # "" THEN shot
    ELSE IF data.data # "" /\ data.type # "action_plan" THEN data.data
    ELSE shot

\* ResultsViewer's effect, field by field.
ScreenshotEffect(data, shot) ==
    IF data.type = "screenshot" /\ data.data # "" THEN data.data
    ELSE IF data.data # "" /\ data.type # "action_plan" THEN data.data
    ELSE shot

\* StatusEffect without the update.
StatusEffectNever(data, st) == st

StatusEffect(data, st) == IF data.status # "" THEN data.status ELSE st

TaskEffect(data, task) == IF data.task # "" THEN data.task ELSE task

ProgressEffect(data, prog) ==
    IF data.task_number # 0 /\ data.total_tasks # 0
    THEN [current |-> data.task_number, total |-> data.total_tasks]
    ELSE prog

Class(type) ==
    IF type \in Narrated THEN "narrated"
    ELSE IF type \in ErrorLike THEN "errorLike"
    ELSE IF type = "complete" THEN "complete"
    ELSE "silent"

Classes == {"narrated", "errorLike", "complete", "silent", "unparsed"}

Reduced == evCount["narrated"] + evCount["errorLike"] + evCount["complete"]
           + evCount["silent"]

\* CloseCall leaving the channel as it is.
CloseCallKeepsOpen(readyState) == readyState

\* WebSocket.close(): readyState after the call.
CloseCall(readyState) ==
    IF readyState \in {"CONNECTING", "OPEN"} THEN "CLOSING" ELSE readyState

\* No render or effect is outstanding and no event handler is mid-task.
Idle == /\ effectRunId = runId
        /\ ~dataPending
        /\ closeDue = NoSocket

\* ------------------------------------------------------------- Init
AppInit ==
    /\ apkPath = "" /\ runId = NoRun /\ currentData = NoData
    /\ testPrompt = "" /\ loading = FALSE /\ started = FALSE
    /\ messages = <<>> /\ inputValue = "" /\ ws = NoSocket
    /\ isConnected = FALSE /\ isWaitingForInput = FALSE
    /\ screenshot = "" /\ status = "idle" /\ currentTask = ""
    /\ taskProgress = [current |-> 0, total |-> 0]
    /\ effectRunId = NoRun /\ dataPending = FALSE
    /\ sock = [s \in RunIds |-> "NONE"] /\ closeDue = NoSocket /\ sent = <<>>
    /\ evCount = [c \in Classes |-> 0] /\ evAppended = 0
    /\ lastCall = "-"
    /\ runData = NoSnapshot /\ interval = "unset" /\ pending = {}
    /\ ticks = 0 /\ server = "running"

Frame(e) == [json |-> TRUE, value |-> e]

\* The frame "null": it parses, handleStatusUpdate(null) runs, data.type
\* throws and the catch block of onmessage ends the handler.
NullFrame == Frame(NoData)

\* Several runs with resets between them, the agent narrating and blocking.
Init ==
    /\ AppInit
    /\ env = [frames |-> {Frame(EvTaskStart), Frame(EvAwaiting)},
              inputs |-> {"", "retry"}, runs |-> MaxRuns, events |-> MaxCarry]

\* One run, the agent sending every kind of envelope.
InitSession ==
    /\ AppInit
    /\ env = [frames |-> Frames \ {Garbage}, inputs |-> Inputs, runs |-> 1,
              events |-> MaxEvents]

\* One run, the agent sending text that is not JSON among its envelopes.
InitFrames ==
    /\ AppInit
    /\ env = [frames |-> {Garbage, NullFrame, Frame(EvTaskStart),
                          Frame(EvAwaiting), Frame(EvShotStatus)},
              inputs |-> {"retry"}, runs |-> 1, events |-> MaxEvents]

\* One run, the agent sending data with envelopes of several types.
InitData ==
    /\ AppInit
    /\ env = [frames |-> {Frame(EvShot), Frame(EvExecuted), Frame(EvPlan),
                          Frame(EvStatus)},
              inputs |-> {"retry"}, runs |-> 1, events |-> MaxEvents]

\* ------------------------------------------------------------- App, Upload
\* Upload.handleFileChange, the request succeeding: onUploadSuccess(path).
handleFileChange ==
    /\ Idle /\ apkPath = ""
    /\ apkPath' = ApkPath
    /\ lastCall' = "-"
    /\ UNCHANGED <<runId, currentData, runnerVars, chatVars, viewerVars,
                   reactVars, netVars, histVars, env, pollVars>>

\* ------------------------------------------------------------- TestRunner
setTestPrompt(p) ==
    /\ Idle /\ ~loading /\ ~started
    /\ testPrompt' = p
    /\ lastCall' = "-"
    /\ UNCHANGED <<loading, started, appVars, chatVars, viewerVars, reactVars,
                   netVars, histVars, env, pollVars>>

\* startTest without the two tests that end in an alert.
startTestUnvalidated ==
    /\ Idle /\ ~loading /\ ~started
    /\ loading' = TRUE
    /\ lastCall' = "startTest:requested"
    /\ UNCHANGED <<testPrompt, started, appVars, chatVars, viewerVars,
                   reactVars, netVars, histVars, env, pollVars>>

\* startTest up to its await: the two alerts, or the creation request.
startTest ==
    /\ Idle /\ ~loading /\ ~started
    /\ loading' = (apkPath # "" /\ testPrompt # "")
    /\ lastCall' = IF loading' THEN "startTest:requested" ELSE "startTest:alert"
    /\ UNCHANGED <<testPrompt, started, appVars, chatVars, viewerVars,
                   reactVars, netVars, histVars, env, pollVars>>

\* App.handleRunStart(id).
handleRunStart(id) ==
    /\ runId' = id
    /\ currentData' = NoData
    /\ dataPending' = (dataPending \/ currentData # NoData)

\* startTest after its await, the request fulfilled with a new run id.
startTestFulfilled ==
    /\ loading /\ closeDue = NoSocket
    /\ runId < env.runs
    /\ handleRunStart(runId + 1)
    /\ started' = TRUE
    /\ loading' = FALSE
    /\ lastCall' = "-"
    /\ UNCHANGED <<apkPath, testPrompt, chatVars, viewerVars, effectRunId,
                   netVars, histVars, env, pollVars>>

\* The catch block of startTest issuing the request again.
startTestRejectedRetries ==
    /\ loading /\ closeDue = NoSocket
    /\ loading' = TRUE
    /\ lastCall' = "startTest:failed"
    /\ UNCHANGED <<testPrompt, started, appVars, chatVars, viewerVars,
                   reactVars, netVars, histVars, env, pollVars>>

\* startTest after its await, the request rejected: the catch block.
startTestRejected ==
    /\ loading /\ closeDue = NoSocket
    /\ loading' = FALSE
    /\ lastCall' = "startTest:failed"
    /\ UNCHANGED <<testPrompt, started, appVars, chatVars, viewerVars,
                   reactVars, netVars, histVars, env, pollVars>>

resetTest ==
    /\ Idle /\ started
    /\ started' = FALSE
    /\ testPrompt' = ""
    /\ lastCall' = "-"
    /\ UNCHANGED <<loading, appVars, chatVars, viewerVars, reactVars, netVars,
                   histVars, env, pollVars>>

\* ------------------------------------------------------------- ChatInterface
\* The websocket effect: the cleanup of its previous run, then its body.
websocketEffect ==
    /\ closeDue = NoSocket
    /\ runId # effectRunId
    /\ sock' = [s \in RunIds |->
                  IF s = runId THEN "CONNECTING"
                  ELSE IF s = effectRunId THEN CloseCall(sock[s])
                  ELSE sock[s]]
    /\ ws' = runId
    /\ effectRunId' = runId
    /\ lastCall' = "-"
    /\ UNCHANGED <<appVars, runnerVars, messages, inputValue, isConnected,
                   isWaitingForInput, viewerVars, dataPending,
                   closeDue, sent, histVars, env, pollVars>>

onopen(s) ==
    /\ closeDue = NoSocket
    /\ sock[s] = "CONNECTING"
    /\ sock' = [sock EXCEPT ![s] = "OPEN"]
    /\ isConnected' = TRUE
    /\ messages' = Append(messages, ConnectedNote)
    /\ lastCall' = "-"
    /\ UNCHANGED <<appVars, runnerVars, inputValue, ws, isWaitingForInput,
                   viewerVars, reactVars, closeDue, sent, histVars, env, pollVars>>

\* App.handleStatusUpdate(data).
handleStatusUpdate(data) ==
    /\ currentData' = data
    /\ dataPending' = TRUE

handleWebSocketMessage(data) ==
    /\ handleStatusUpdate(data)
    /\ messages' = TranscriptEffect(data, messages)
    /\ isWaitingForInput' = GateEffect(data, isWaitingForInput)

\* The catch block of onmessage with the failure shown in the transcript.
dropFrameAsError ==
    /\ messages' = addMessage(messages, "error", "Unknown error occurred")
    /\ UNCHANGED <<currentData, dataPending, isWaitingForInput>>

\* The catch block of onmessage: the failure is logged to the console.
dropFrame ==
    UNCHANGED <<currentData, dataPending, messages, isWaitingForInput>>

onmessage(s, frame) ==
    /\ closeDue = NoSocket
    /\ sock[s] = "OPEN"
    /\ frame \in env.frames
    /\ lastCall' = "-"
    /\ LET parsed == JSONParse(frame) IN
       IF parsed.ok
       THEN /\ Reduced < env.events
            /\ handleWebSocketMessage(parsed.value)
            /\ evCount' = [evCount EXCEPT ![Class(parsed.value.type)] = @ + 1]
            /\ evAppended' = evAppended + (Len(messages') - Len(messages))
       ELSE /\ evCount["unparsed"] < MaxUnparsed
            /\ evCount' = [evCount EXCEPT !["unparsed"] = @ + 1]
            /\ dropFrame
            /\ evAppended' = evAppended
    /\ UNCHANGED <<apkPath, runId, runnerVars, inputValue, ws, isConnected,
                   viewerVars, effectRunId, netVars, env, pollVars>>

\* The connection fails: readyState is CLOSED, then error and close are
\* fired one after the other.  This is the error handler.
onerror(s) ==
    /\ closeDue = NoSocket
    /\ sock[s] \in {"CONNECTING", "OPEN", "CLOSING"}
    /\ sock' = [sock EXCEPT ![s] = "CLOSED"]
    /\ closeDue' = s
    /\ messages' = Append(messages, ErrorNote)
    /\ lastCall' = "-"
    /\ UNCHANGED <<appVars, runnerVars, inputValue, ws, isConnected,
                   isWaitingForInput, viewerVars, reactVars, sent, histVars, env, pollVars>>

\* The close handler starting the transcript afresh.
oncloseClearsTranscript(s) ==
    /\ \/ closeDue = s
       \/ closeDue = NoSocket /\ sock[s] \in {"OPEN", "CLOSING"}
    /\ sock' = [sock EXCEPT ![s] = "CLOSED"]
    /\ closeDue' = NoSocket
    /\ isConnected' = FALSE
    /\ messages' = <<DisconnectedNote>>
    /\ lastCall' = "-"
    /\ UNCHANGED <<appVars, runnerVars, inputValue, ws, isWaitingForInput,
                   viewerVars, reactVars, sent, histVars, env, pollVars>>

\* The close handler: after an error, after the peer closed, or once a
\* local close() completed.
onclose(s) ==
    /\ \/ closeDue = s
       \/ closeDue = NoSocket /\ sock[s] \in {"OPEN", "CLOSING"}
    /\ sock' = [sock EXCEPT ![s] = "CLOSED"]
    /\ closeDue' = NoSocket
    /\ isConnected' = FALSE
    /\ messages' = Append(messages, DisconnectedNote)
    /\ lastCall' = "-"
    /\ UNCHANGED <<appVars, runnerVars, inputValue, ws, isWaitingForInput,
                   viewerVars, reactVars, sent, histVars, env, pollVars>>

\* The peer starts the closing handshake: readyState is CLOSING from then
\* on, and the close event follows in a later task.
closingHandshake(s) ==
    /\ closeDue = NoSocket
    /\ sock[s] = "OPEN"
    /\ sock' = [sock EXCEPT ![s] = "CLOSING"]
    /\ lastCall' = "-"
    /\ UNCHANGED <<appVars, runnerVars, chatVars, viewerVars, reactVars,
                   closeDue, sent, histVars, env, pollVars>>

setInputValue(v) ==
    /\ Idle /\ runId # NoRun /\ isConnected
    /\ v \in env.inputs
    /\ inputValue' = v
    /\ lastCall' = "-"
    /\ UNCHANGED <<appVars, runnerVars, messages, ws, isConnected,
                   isWaitingForInput, viewerVars, reactVars, netVars, histVars, env, pollVars>>

\* SendGuard without the isConnected test.
SendGuardIgnoresConnection == Trim(inputValue) # "" /\ ws # NoSocket

\* The guard of sendMessage.
SendGuard == Trim(inputValue) # "" /\ ws # NoSocket /\ isConnected

\* GateAfterSend without the setIsWaitingForInput(false).
GateAfterSendKept(gate) == gate

\* isWaitingForInput after a send that passed the guard.
GateAfterSend(gate) == FALSE

\* sendMessage.  WebSocket.send throws on a CONNECTING socket (the handler
\* ends there), transmits on an OPEN one and drops the data silently on a
\* CLOSING or CLOSED one.
sendMessage ==
    /\ Idle /\ runId # NoRun
    /\ lastCall' = IF ~SendGuard THEN "sendMessage:returned"
                   ELSE IF sock[ws] = "CONNECTING" THEN "sendMessage:threw"
                   ELSE "sendMessage:done"
    /\ IF SendGuard /\ sock[ws] # "CONNECTING"
       THEN /\ NumUser(messages) < MaxSends
            /\ sent' = IF sock[ws] = "OPEN"
                       THEN Append(sent, [to |-> ws, type |-> "user_message",
                                          message |-> inputValue])
                       ELSE sent
            /\ messages' = addMessage(messages, "user", inputValue)
            /\ inputValue' = ""
            /\ isWaitingForInput' = GateAfterSend(isWaitingForInput)
       ELSE UNCHANGED <<sent, messages, inputValue, isWaitingForInput>>
    /\ UNCHANGED <<appVars, runnerVars, ws, isConnected, viewerVars, reactVars,
                   sock, closeDue, histVars, env, pollVars>>

\* ------------------------------------------------------------- ResultsViewer
resultsViewerEffect ==
    /\ closeDue = NoSocket
    /\ dataPending
    /\ dataPending' = FALSE
    /\ IF currentData = NoData
       THEN UNCHANGED viewerVars
       ELSE /\ screenshot' = ScreenshotEffect(currentData, screenshot)
            /\ status' = StatusEffect(currentData, status)
            /\ currentTask' = TaskEffect(currentData, currentTask)
            /\ taskProgress' = ProgressEffect(currentData, taskProgress)
    /\ lastCall' = "-"
    /\ UNCHANGED <<appVars, runnerVars, chatVars, effectRunId,
                   netVars, histVars, env, pollVars>>

\* The steps of one run: every handler but 'Start New Test'.
SessionStep ==
    \/ handleFileChange
    \/ \E p \in Prompts : setTestPrompt(p)
    \/ startTest
    \/ startTestFulfilled
    \/ startTestRejected
    \/ websocketEffect
    \/ \E s \in RunIds : onopen(s)
    \/ \E s \in RunIds,
          f \in Frames \cup {NullFrame, Frame(EvExecuted), Frame(EvPlan)} :
             onmessage(s, f)
    \/ \E s \in RunIds : onerror(s)
    \/ \E s \in RunIds : onclose(s)
    \/ \E v \in Inputs : setInputValue(v)
    \/ sendMessage
    \/ resultsViewerEffect

Next ==
    \/ SessionStep
    \/ resetTest
    \/ \E s \in RunIds : closingHandshake(s)

Spec == Init /\ [][Next]_vars

SpecSession == InitSession /\ [][SessionStep]_vars

SpecFrames == InitFrames /\ [][SessionStep]_vars

SpecData == InitData /\ [][SessionStep]_vars

\* ------------------------------------------------------------- polling
\* What the polling application leaves alone.
duplexVars == <<currentData, started, chatVars, viewerVars, reactVars,
                netVars, histVars, env>>

\* One run of the polling application.
InitPolling ==
    /\ AppInit
    /\ env = [frames |-> {}, inputs |-> {}, runs |-> 1, events |-> 0]

pollingFileChange ==
    /\ apkPath = ""
    /\ apkPath' = ApkPath
    /\ lastCall' = "-"
    /\ UNCHANGED <<runId, testPrompt, loading, duplexVars, pollVars>>

pollingSetTestPrompt(p) ==
    /\ ~loading /\ runId = NoRun
    /\ testPrompt' = p
    /\ lastCall' = "-"
    /\ UNCHANGED <<apkPath, runId, loading, duplexVars, pollVars>>

\* TestRunner (polling) startTest up to its await.
pollingStartTest ==
    /\ ~loading /\ runId = NoRun
    /\ loading' = (apkPath # "" /\ testPrompt # "")
    /\ lastCall' = IF loading' THEN "startTest:requested" ELSE "startTest:alert"
    /\ UNCHANGED <<apkPath, runId, testPrompt, duplexVars, pollVars>>

\* startTest after its await: setRunId(res.data.run_id).
pollingStartTestFulfilled ==
    /\ loading
    /\ runId < env.runs
    /\ runId' = runId + 1
    /\ loading' = FALSE
    /\ lastCall' = "-"
    /\ UNCHANGED <<apkPath, testPrompt, duplexVars, pollVars>>

pollingStartTestRejected ==
    /\ loading
    /\ loading' = FALSE
    /\ lastCall' = "startTest:failed"
    /\ UNCHANGED <<apkPath, runId, testPrompt, duplexVars, pollVars>>

\* The polling effect's body: setInterval.
pollingEffect ==
    /\ runId # NoRun /\ interval = "unset"
    /\ interval' = "set"
    /\ lastCall' = "-"
    /\ UNCHANGED <<apkPath, runId, testPrompt, loading, duplexVars, runData,
                   pending, ticks, server>>

\* The polling effect's cleanup, run when TestRunner is torn down:
\* clearInterval.
pollingCleanup ==
    /\ interval = "set"
    /\ interval' = "cleared"
    /\ lastCall' = "-"
    /\ UNCHANGED <<apkPath, runId, testPrompt, loading, duplexVars, runData,
                   pending, ticks, server>>

\* The interval fires: axios.get is issued, whatever is still in flight.
\* The server answers with the status it has at that time.
pollingTick ==
    /\ interval = "set"
    /\ ticks < MaxTicks
    /\ ticks' = ticks + 1
    /\ pending' = pending \cup {[tick |-> ticks + 1, data |-> Snapshot(server)]}
    /\ lastCall' = "-"
    /\ UNCHANGED <<apkPath, runId, testPrompt, loading, duplexVars, runData,
                   interval, server>>

\* The interval callback keeping the first snapshot it was given.
pollingFulfilledKeepsFirst(r) ==
    /\ r \in pending
    /\ pending' = pending \ {r}
    /\ runData' = IF runData = NoSnapshot THEN r.data ELSE runData
    /\ lastCall' = "-"
    /\ UNCHANGED <<apkPath, runId, testPrompt, loading, duplexVars, interval,
                   ticks, server>>

\* A status request is fulfilled: onRunUpdate(res.data), that is App's
\* setRunData.
pollingFulfilled(r) ==
    /\ r \in pending
    /\ pending' = pending \ {r}
    /\ runData' = r.data
    /\ lastCall' = "-"
    /\ UNCHANGED <<apkPath, runId, testPrompt, loading, duplexVars, interval,
                   ticks, server>>

\* The catch block of the interval callback clearing the interval.
pollingRejectedStopsTimer(r) ==
    /\ r \in pending
    /\ pending' = pending \ {r}
    /\ interval' = "cleared"
    /\ lastCall' = "poll:failed"
    /\ UNCHANGED <<apkPath, runId, testPrompt, loading, duplexVars, runData,
                   ticks, server>>

\* A status request is rejected: the catch block logs it.
pollingRejected(r) ==
    /\ r \in pending
    /\ pending' = pending \ {r}
    /\ lastCall' = "poll:failed"
    /\ UNCHANGED <<apkPath, runId, testPrompt, loading, duplexVars, runData,
                   interval, ticks, server>>

\* The agent finishes the run on the server.
serverFinishes(st) ==
    /\ runId # NoRun /\ server = "running"
    /\ server' = st
    /\ lastCall' = "-"
    /\ UNCHANGED <<apkPath, runId, testPrompt, loading, duplexVars, runData,
                   interval, pending, ticks>>

NextPolling ==
    \/ pollingFileChange
    \/ \E p \in Prompts : pollingSetTestPrompt(p)
    \/ pollingStartTest
    \/ pollingStartTestFulfilled
    \/ pollingStartTestRejected
    \/ pollingEffect
    \/ pollingCleanup
    \/ pollingTick
    \/ \E r \in pending : pollingFulfilled(r)
    \/ \E r \in pending : pollingRejected(r)
    \/ \E st \in {"passed", "failed"} : serverFinishes(st)

SpecPolling == InitPolling /\ [][NextPolling]_vars

\* ------------------------------------------------------------- properties
Last(seq) == seq[Len(seq)]

\* The step reduces a parsed inbound event of type t.
ReducesEvent(t) == Reduced' = Reduced + 1 /\ currentData'.type = t

\* The step is a sendMessage that passed its guard and appended the reply.
RepliesToAgent ==
    /\ Trim(inputValue) # ""
    /\ messages' = Append(messages, ChatEntry("user", inputValue))

\* The step is ResultsViewer's effect consuming an event of type t.
ConsumesEvent(t) == dataPending /\ ~dataPending' /\ currentData.type = t

TaskEntry == ChatEntry("agent", "Task 1/3")
CrashEntry == ChatEntry("error", "crash?")
RetryEntry == ChatEntry("user", "retry")
PassedEntry == ChatEntry("system", "Test completed with status: passed")

\* C1, as the claim states it: the entries appended by inbound events are as
\* many as the narrated events plus the error-like events.
C1_AppendedIsNarratedPlusErrors ==
    evAppended = evCount["narrated"] + evCount["errorLike"]

\* C1, amended: the entries appended by inbound events are as many as the
\* narrated events plus the error-like events plus the complete events;
\* screenshot events and events of unrecognized type append none.
C1_AppendedCountsComplete ==
    evAppended = evCount["narrated"] + evCount["errorLike"] + evCount["complete"]

C1_Witness ==
    /\ evCount["narrated"] = 1 /\ evCount["complete"] = 1
    /\ evCount["silent"] = 1 /\ evAppended = 2

\* C2, as the claim states it: once the polling interval is cleared, no
\* status response changes the run data.
C2_StaleResponseDiscarded ==
    [][interval = "cleared" => runData' = runData]_vars

\* C3: a send that passed the guard leaves the gate not-waiting, whether it
\* was waiting or not.
C3_SendClearsGate ==
    [][RepliesToAgent => ~isWaitingForInput']_vars

C3_Witness ==
    /\ Len(messages) >= 2
    /\ Last(messages) = RetryEntry
    /\ messages[Len(messages) - 1] = CrashEntry
    /\ lastCall = "sendMessage:done"
    /\ ~isWaitingForInput

\* C4: every error_awaiting_input event leaves the gate waiting, whatever it
\* was before, and one reply or one complete event then clears it.
C4_AwaitingIsIdempotent ==
    /\ [][ReducesEvent("error_awaiting_input") => isWaitingForInput']_vars
    /\ [][(isWaitingForInput /\ (RepliesToAgent \/ ReducesEvent("complete")))
            => ~isWaitingForInput']_vars

C4_Witness ==
    /\ isWaitingForInput
    /\ evCount["errorLike"] >= 2
    /\ \E i \in 1..(Len(messages) - 1) :
          messages[i] = CrashEntry /\ messages[i + 1] = CrashEntry

\* C5: the gate goes from not-waiting to waiting only in a step that reduces
\* an error_awaiting_input event, and from waiting to not-waiting only in a
\* step that sends a reply or reduces a complete event.
C5_GateTransitions ==
    /\ [][(~isWaitingForInput /\ isWaitingForInput')
            => ReducesEvent("error_awaiting_input")]_vars
    /\ [][(isWaitingForInput /\ ~isWaitingForInput')
            => (RepliesToAgent \/ ReducesEvent("complete"))]_vars

C5_Witness ==
    /\ ~isWaitingForInput
    /\ Len(messages) >= 2
    /\ Last(messages) = PassedEntry
    /\ messages[Len(messages) - 1] = CrashEntry

AfterTaskStart ==
    /\ runId = 1 /\ sock[1] = "OPEN" /\ NumUser(messages) = 0
    /\ Reduced = 1 /\ currentData = EvTaskStart

AfterAwaiting ==
    /\ runId = 1 /\ sock[1] = "OPEN" /\ NumUser(messages) = 0
    /\ Reduced = 2 /\ currentData = EvAwaiting
    /\ Len(messages) >= 2 /\ messages[Len(messages) - 1] = TaskEntry

AfterRetry ==
    /\ runId = 1 /\ sock[1] = "OPEN" /\ NumUser(messages) = 1
    /\ Reduced = 2 /\ currentData = EvAwaiting
    /\ Len(messages) >= 3 /\ Last(messages) = RetryEntry
    /\ messages[Len(messages) - 1] = CrashEntry
    /\ messages[Len(messages) - 2] = TaskEntry

AfterComplete ==
    /\ runId = 1 /\ sock[1] = "OPEN" /\ NumUser(messages) = 1
    /\ Reduced = 3 /\ currentData = EvComplete /\ ~dataPending
    /\ Len(messages) >= 4
    /\ messages[Len(messages) - 1] = RetryEntry
    /\ messages[Len(messages) - 2] = CrashEntry
    /\ messages[Len(messages) - 3] = TaskEntry

RetrySent == [to |-> 1, type |-> "user_message", message |-> "retry"]

\* C7, as the claim states it: the transcript is [agent:"Task 1/3"] after
\* task_start, has 2 entries and the gate waiting after error_awaiting_input,
\* 3 entries, one outbound user_message and the gate not-waiting after the
\* reply, 4 entries and status passed after complete.
C7_ScenarioAsStated ==
    /\ AfterTaskStart => messages = <<TaskEntry>>
    /\ AfterAwaiting => (isWaitingForInput /\ Len(messages) = 2)
    /\ AfterRetry =>
          (sent = <<RetrySent>> /\ ~isWaitingForInput /\ Len(messages) = 3)
    /\ AfterComplete => (status = "passed" /\ Len(messages) = 4)

\* C7, amended: the transcript starts with the system entry of the channel
\* opening, so it is [system:"Connected to agent", agent:"Task 1/3"] after
\* task_start and has 3, 4 and 5 entries after the later steps; the gate, the
\* outbound message and the status are as the claim states.
C7_ScenarioWithConnectNote ==
    /\ AfterTaskStart => messages = <<ConnectedNote, TaskEntry>>
    /\ AfterAwaiting => (isWaitingForInput /\ Len(messages) = 3)
    /\ AfterRetry =>
          (sent = <<RetrySent>> /\ ~isWaitingForInput /\ Len(messages) = 4)
    /\ AfterComplete => (status = "passed" /\ Len(messages) = 5)

C7_Witness == AfterComplete /\ status = "passed" /\ sent = <<RetrySent>>

\* The session is not connected: no channel, a channel that has not opened
\* yet or has closed, or the connection flag down.
NotConnected ==
    ws = NoSocket \/ sock[ws] \in {"CONNECTING", "CLOSED"} \/ ~isConnected

\* C8: while the session is not connected no step transmits or appends a user
\* entry, and a call of sendMessage changes neither the transcript nor the
\* gate nor the typed text; what is transmitted is only ever the text of the
\* call that transmits it.
C8_SendWhileDisconnected ==
    /\ [][NotConnected
            => (sent' = sent /\ NumUser(messages') = NumUser(messages))]_vars
    /\ [][(NotConnected /\ lastCall' \in {"sendMessage:returned",
                                          "sendMessage:threw",
                                          "sendMessage:done"})
            => UNCHANGED <<messages, isWaitingForInput, inputValue, sent>>]_vars
    /\ [][sent' # sent
            => sent' = Append(sent, [to |-> ws, type |-> "user_message",
                                     message |-> inputValue])]_vars

C8_Witness ==
    /\ lastCall = "sendMessage:returned"
    /\ ~isConnected /\ ws # NoSocket
    /\ inputValue = "retry" /\ isWaitingForInput
    /\ sent = <<>>

RunStateIsInitial ==
    /\ screenshot = "" /\ status = "idle" /\ currentTask = ""
    /\ taskProgress = [current |-> 0, total |-> 0]

\* C9, as the claim states it: when the session of a new run has been set up
\* and has not yet opened, the transcript is empty, the gate is not-waiting
\* and the RunState is the initial one.
C9_NoCarryover ==
    (runId # NoRun /\ effectRunId = runId /\ sock[runId] = "CONNECTING")
        => (messages = <<>> /\ ~isWaitingForInput /\ RunStateIsInitial)

\* C10, as the claim states it: after 'Start New Test' the channel of the run
\* is closed or closing, and no inbound event is reduced until a new run
\* starts.
C10_ResetClosesChannel ==
    /\ [](( runId # NoRun /\ ~started)
            => \A s \in RunIds : sock[s] \notin {"CONNECTING", "OPEN"})
    /\ [][(runId # NoRun /\ ~started) => Reduced' = Reduced]_vars

\* The step drops an inbound frame that does not parse.
DropsFrame == evCount'["unparsed"] = evCount["unparsed"] + 1

\* C11: a step that drops an unparsable frame changes neither the RunState
\* nor the latest-event slot nor the transcript nor the gate nor the
\* connection flag nor any channel; a frame that parses to null changes
\* neither the RunState (when it is handled or consumed) nor the transcript
\* nor the gate nor the connection; and an event that arrives after a drop
\* is reduced as the dispatch table says.
C11_UnparsedFrameDropped ==
    /\ [][DropsFrame
            => UNCHANGED <<viewerVars, currentData, dataPending, messages,
                           isWaitingForInput, isConnected, ws, sock, closeDue,
                           sent>>]_vars
    /\ [][(ReducesEvent("") \/ ConsumesEvent(""))
            => UNCHANGED <<viewerVars, messages, isWaitingForInput,
                           isConnected, ws, sock, closeDue, sent>>]_vars
    /\ [][(evCount["unparsed"] > 0 /\ Reduced' = Reduced + 1)
            => /\ messages' = TranscriptEffect(currentData', messages)
               /\ isWaitingForInput' = GateEffect(currentData', isWaitingForInput)
               /\ dataPending']_vars

C11_Witness ==
    /\ evCount["unparsed"] = 1 /\ Reduced = 2
    /\ sock[1] = "OPEN" /\ isConnected
    /\ messages = <<ConnectedNote, TaskEntry, CrashEntry>>
    /\ isWaitingForInput /\ status = "running"

\* The step is the open callback of session s.
OpenStep(s) == sock[s] = "CONNECTING" /\ sock'[s] = "OPEN"

\* The step is the close callback of session s: after the peer or a local
\* close() closed the channel, or after the error callback.
CloseStep(s) ==
    /\ closeDue' = NoSocket
    /\ \/ sock[s] \in {"OPEN", "CLOSING"} /\ sock'[s] = "CLOSED"
       \/ closeDue = s

NumNotes(note) == Cardinality({i \in DOMAIN messages : messages[i] = note})

\* C12: a session is created connecting, and only for a run that has none;
\* it becomes connected only from connecting, in a step that raises the
\* connection flag and appends one system entry; its close callback lowers
\* the flag and appends one system entry, and every closed session has had
\* its close callback or is about to; a closed session stays closed; and an
\* inbound event is only ever delivered by the open channel of the current
\* session.
C12_SessionStateMachine ==
    /\ [][\A s \in RunIds :
            /\ (sock'[s] = "CONNECTING" /\ sock[s] # "CONNECTING")
                  => (sock[s] = "NONE" /\ s = runId /\ effectRunId # runId
                      /\ ws' = s)
            /\ (sock'[s] = "OPEN" /\ sock[s] # "OPEN") => sock[s] = "CONNECTING"
            /\ sock[s] = "CLOSED" => sock'[s] = "CLOSED"
            /\ OpenStep(s)
                  => (isConnected' /\ messages' = Append(messages, ConnectedNote))
            /\ CloseStep(s)
                  => (~isConnected'
                      /\ messages' = Append(messages, DisconnectedNote))]_vars
    /\ [][Reduced' = Reduced + 1
            => (ws # NoSocket /\ sock[ws] = "OPEN" /\ sock'[ws] = "OPEN")]_vars
    /\ [](\A s \in RunIds :
            /\ sock[s] = "CLOSED" => (closeDue = s \/ NumNotes(DisconnectedNote) >= 1)
            /\ sock[s] \in {"CONNECTING", "OPEN"} => s = ws)

C12_Witness ==
    /\ sock[1] = "CLOSED" /\ sock[2] = "OPEN" /\ ws = 2 /\ isConnected
    /\ closeDue = NoSocket
    /\ NumNotes(ConnectedNote) = 2 /\ NumNotes(DisconnectedNote) = 1
    /\ Last(messages) = ConnectedNote
    /\ Reduced = 1

\* The type of the transcript entry the dispatch table gives an event type,
\* "" for none.
EntryType(t) ==
    IF t \in Narrated THEN "agent"
    ELSE IF t \in ErrorLike THEN "error"
    ELSE IF t = "complete" THEN "system"
    ELSE ""

\* The entries of a transcript that inbound events appended.
EventEntries(msgs) ==
    SelectSeq(msgs, LAMBDA m : m \notin {ConnectedNote, ErrorNote, DisconnectedNote}
                               /\ m.type # "user")

\* C13: a step that reduces an event keeps the transcript so far as it is
\* and puts the entry of that event, if it has one, behind it, in the same
\* step in which the event becomes the latest event and sets the gate; so
\* the entry of the event that arrived last is the last of the entries that
\* events appended.
C13_ArrivalOrder ==
    /\ [][Reduced' = Reduced + 1
            => /\ isWaitingForInput' = GateEffect(currentData', isWaitingForInput)
               /\ IF EntryType(currentData'.type) = ""
                  THEN messages' = messages
                  ELSE /\ Len(messages') = Len(messages) + 1
                       /\ SubSeq(messages', 1, Len(messages)) = messages
                       /\ Last(messages').type = EntryType(currentData'.type)]_vars
    /\ []((Reduced > 0 /\ EntryType(currentData.type) # "")
            => /\ EventEntries(messages) # <<>>
               /\ Last(EventEntries(messages))
                     = Last(TranscriptEffect(currentData, <<>>)))

C13_Witness ==
    /\ messages = <<ConnectedNote, TaskEntry, CrashEntry, PassedEntry>>
    /\ Reduced = 3 /\ currentData = EvComplete
    /\ sock[1] = "OPEN"

\* C14, as the claim states it: once the task_start event that carries
\* status running, task "open" and task 1 of 3 has been reduced (its entry
\* is in the transcript) and no update of the RunState is outstanding, the
\* current task is "open", the progress is 1 of 3 (no other event carries
\* either) and the status is one that an event carried.
C14_CarriedFieldsApplied ==
    (NumNotes(TaskEntry) >= 1 /\ ~dataPending)
        => /\ currentTask = "open"
           /\ taskProgress = [current |-> 1, total |-> 3]
           /\ status \in {"running", "failed", "passed"}

\* The step is a call of startTest (of either TestRunner).
CallsStartTest == lastCall' \in {"startTest:requested", "startTest:alert"}

\* C15: a call of startTest with no uploaded APK or with empty instructions
\* ends in the alert: no creation request is in flight after it and the run
\* identifier, the channels and the polling timer are as before; a creation
\* request is only ever in flight for a non-empty APK path and non-empty
\* instructions, and a run identifier is only delivered by a step that ends
\* such a request.
C15_ValidationIsLocal ==
    /\ [][(CallsStartTest /\ (apkPath = "" \/ testPrompt = ""))
            => /\ lastCall' = "startTest:alert"
               /\ ~loading'
               /\ UNCHANGED <<runId, currentData, started, ws, sock,
                              effectRunId, interval, pending, ticks>>]_vars
    /\ [](loading => (apkPath # "" /\ testPrompt # ""))
    /\ [][runId' # runId => (loading /\ ~loading')]_vars

C15_Witness ==
    /\ lastCall = "startTest:alert"
    /\ apkPath = "" /\ testPrompt = "open app"
    /\ ~loading /\ runId = NoRun /\ ws = NoSocket
    /\ \A s \in RunIds : sock[s] = "NONE"

\* C16: the step in which a creation request fails leaves no request in
\* flight, delivers no run identifier, opens no channel and sets no timer,
\* and leaves the launcher with its inputs, not started and not loading; a
\* request only ever goes in flight in a step that is a call of startTest,
\* and such a call puts exactly one in flight.
C16_CreationFailure ==
    /\ [][lastCall' = "startTest:failed"
            => /\ ~loading' /\ ~started'
               /\ apkPath' # "" /\ testPrompt' # ""
               /\ UNCHANGED <<apkPath, testPrompt, runId, currentData, ws,
                              sock, effectRunId, messages, interval, pending,
                              ticks>>]_vars
    /\ [][(loading' /\ ~loading) => lastCall' = "startTest:requested"]_vars
    /\ [][(lastCall' = "startTest:requested" /\ lastCall # "startTest:requested")
            => (~loading /\ loading')]_vars

C16_Witness ==
    /\ lastCall = "startTest:failed"
    /\ ~loading /\ ~started /\ runId = NoRun /\ ws = NoSocket
    /\ apkPath = ApkPath /\ testPrompt = "open app"
    /\ \A s \in RunIds : sock[s] = "NONE"

\* C17: the step in which a status request fails leaves the interval as it
\* is, so that it keeps firing, leaves the run data and the transcript as
\* they are, and only takes the request out of those in flight.
C17_PollFailureIsQuiet ==
    [][lastCall' = "poll:failed"
         => /\ UNCHANGED <<interval, runData, messages, ticks, runId>>
            /\ pending' \subseteq pending]_vars

C17_Witness ==
    /\ lastCall = "poll:failed"
    /\ interval = "set" /\ ticks = 2 /\ pending = {}
    /\ runData = Snapshot("running")

\* C18: a step in which the response of a status request arrives makes the
\* run data the snapshot of that response, whichever tick dispatched it and
\* whatever else is in flight, and the run data changes in no other step.
C18_LastArrivalWins ==
    /\ [][\A r \in pending :
            (pending' = pending \ {r} /\ lastCall' # "poll:failed")
                => runData' = r.data]_vars
    /\ [][runData' # runData
            => \E r \in pending : pending' = pending \ {r} /\ runData' = r.data]_vars

\* The second tick was dispatched while the first request was in flight, and
\* its response arrived first.
C18_Witness ==
    /\ interval = "set" /\ ticks = 2
    /\ pending = {[tick |-> 1, data |-> Snapshot("running")]}
    /\ runData = Snapshot("passed")

\* C19: every step leaves the transcript as it is or appends one entry to
\* it: the entries it had keep their places and their contents.
C19_AppendOnly ==
    [][/\ Len(messages') \in {Len(messages), Len(messages) + 1}
       /\ SubSeq(messages', 1, Len(messages)) = messages]_vars

\* The channel opened, an event was reduced, the user replied, the channel
\* failed and closed: one entry each, in that order.
C19_Witness ==
    messages = <<ConnectedNote, CrashEntry, RetryEntry, ErrorNote,
                 DisconnectedNote>>

\* C20, as the claim states it: the step that reduces a complete event
\* appends one system entry and leaves the gate not-waiting; and once the
\* complete event with status passed is the last event that appended an
\* entry and no update of the RunState is outstanding, the status is passed,
\* or failed if the screenshot event that carries that status came later.
C20_CompleteSetsStatus ==
    /\ [][ReducesEvent("complete")
            => /\ Len(messages') = Len(messages) + 1
               /\ Last(messages').type = "system"
               /\ ~isWaitingForInput']_vars
    /\ []((EventEntries(messages) # <<>>
           /\ Last(EventEntries(messages)) = PassedEntry
           /\ ~dataPending)
            => status \in {"passed", "failed"})

\* The step is ResultsViewer's effect consuming an event of another type
\* than screenshot.
ConsumesOther ==
    /\ dataPending /\ ~dataPending'
    /\ currentData # NoData /\ currentData.type # "screenshot"

\* C21, as the claim states it: no step that handles or consumes an event of
\* another type than screenshot changes the screenshot, whether the event
\* carries data or not.
C21_OnlyScreenshotEvents ==
    /\ [][Reduced' = Reduced + 1 => screenshot' = screenshot]_vars
    /\ [][ConsumesOther => screenshot' = screenshot]_vars

\* C21, amended: handling an event never changes the screenshot; consuming
\* an event of another type than screenshot leaves it unchanged when the
\* event carries no data or is of type action_plan, and otherwise makes the
\* data it carries the screenshot.
C21_DataFallback ==
    /\ [][Reduced' = Reduced + 1 => screenshot' = screenshot]_vars
    /\ [][ConsumesOther
            => screenshot' = IF currentData.data # ""
                                /\ currentData.type # "action_plan"
                             THEN currentData.data
                             ELSE screenshot]_vars

\* action_executed with data was consumed, then action_plan with data.
C21_Witness ==
    /\ screenshot = "Zg==" /\ currentData = EvPlan /\ ~dataPending
    /\ Reduced = 2 /\ evCount["narrated"] = 2

\* The event in the latest-value slot has not been consumed and would
\* change the RunState.
UpdateOutstanding ==
    /\ dataPending /\ currentData # NoData
    /\ \/ ScreenshotEffect(currentData, screenshot) # screenshot
       \/ StatusEffect(currentData, status) # status
       \/ TaskEffect(currentData, currentTask) # currentTask
       \/ ProgressEffect(currentData, taskProgress) # taskProgress

\* C22, as the claim states it: no event is put in the latest-value slot
\* while the update of the event before it is outstanding, so that no update
\* is overwritten before it is applied.
C22_NoLostUpdate ==
    [][Reduced' = Reduced + 1 => ~UpdateOutstanding]_vars

\* C23, as the claim states it: a callback of a session that is no longer
\* the current one changes neither the connection flag nor the transcript,
\* and whenever no callback is mid-way the flag is up exactly when the
\* channel of the current session is open.
C23_FlagTracksCurrentSession ==
    /\ [][\A s \in RunIds :
            (s # ws /\ sock'[s] # sock[s] /\ sock'[s] = "CLOSED")
                => UNCHANGED <<isConnected, messages>>]_vars
    /\ [](closeDue = NoSocket
            => (isConnected <=> (ws # NoSocket /\ sock[ws] = "OPEN")))

\* C24, as the claim states it: whenever the user can call sendMessage and
\* its guard passes, the handle is the channel of the current run and that
\* channel is open; no call ends in the exception of a send on a connecting
\* channel, and no call appends a user entry without transmitting.
C24_SendsOnOpenChannel ==
    /\ []((Idle /\ runId # NoRun /\ SendGuard)
            => (ws = runId /\ sock[ws] = "OPEN"))
    /\ [](lastCall # "sendMessage:threw")
    /\ [][NumUser(messages') # NumUser(messages) => Len(sent') = Len(sent) + 1]_vars

\* The texts of the user entries of a transcript, in order.
UserTexts(msgs) ==
    LET users == SelectSeq(msgs, LAMBDA m : m.type = "user")
    IN  [i \in DOMAIN users |-> users[i].message]

\* The texts of the user_message envelopes transmitted, in order.
SentTexts == [i \in DOMAIN sent |-> sent[i].message]

\* C25, as the claim states it: the user entries of the transcript and the
\* user_message envelopes transmitted are as many, in the same order and
\* with the same texts; and a call of sendMessage that returns at its guard
\* changes neither and leaves the gate as it was.
C25_UserEntriesMatchOutbound ==
    /\ [](UserTexts(messages) = SentTexts)
    /\ [](\A i \in DOMAIN sent : sent[i].type = "user_message")
    /\ [][lastCall' = "sendMessage:returned"
            => UNCHANGED <<messages, sent, isWaitingForInput>>]_vars

=============================================================================
